---- MODULE Spec2Model ----
(***************************************************************************)
(* The refresh pipeline of app.py: a dcc.Interval component increments     *)
(* n_intervals, and every increment triggers the four callbacks            *)
(* update_graph, update_counts, update_province_map and update_city_map.   *)
(* Each callback fetches its endpoint, reshapes the JSON and returns the   *)
(* value of its output; update_city_map also writes cities_data.csv.       *)
(*                                                                         *)
(* Strings the code inspects character by character (dates, formatted      *)
(* counters, region names) are sequences of one-character strings.  The    *)
(* Chinese region names are written in pinyin, one syllable per character: *)
(* "sheng" is the suffix 省 and "shi" is the suffix 市.                    *)
(***************************************************************************)
EXTENDS Bags, FiniteSets, Integers, Sequences, TLC

VARIABLES
    n_intervals,   \* the Interval component's counter (the current tick)
    response,      \* per callback: the response its requests.get received in this tick
    status,        \* per callback: how its run of this tick ended
    figure,        \* per callback: the value of its Output the page shows
    csv_file,      \* the contents of cities_data.csv
    csv_written,   \* whether cities_data.csv was opened for writing in this tick
    gets           \* per endpoint: the GET requests it received in this tick

vars == <<n_intervals, response, status, figure, csv_file, csv_written, gets>>

----------------------------------------------------------------------------
(* Bounds of the model *)

MaxTicks == 2
MaxDays == 2
MaxProvinces == 2

----------------------------------------------------------------------------
(* Module-level state of app.py *)

Callbacks == {"update_graph", "update_counts", "update_province_map", "update_city_map"}

Endpoints == {"qq", "dxy"}

\* update_counts fetching the area statistics instead of the daily counts.
api_counts_from_dxy(cb) ==
    IF cb = "update_graph" THEN "qq" ELSE "dxy"

\* apis[...]: the endpoint each callback passes to requests.get.
api(cb) ==
    IF cb \in {"update_graph", "update_counts"} THEN "qq" ELSE "dxy"

municipalities ==
    { <<"Bei", "jing">>, <<"Shang", "hai">>, <<"Tian", "jin">>,
      <<"Chong", "qing">>, <<"Tai", "wan">> }

NoResponse == [status_code |-> 0]
NoJson == [not_json |-> TRUE]
NoFigure == [no_figure |-> TRUE]
Absent == [no_file |-> TRUE]

Return(v) == [kind |-> "return", value |-> v]
Raise(e) == [kind |-> "raise", error |-> e]

----------------------------------------------------------------------------
(* Python built-ins the callbacks use *)

\* ord() of the characters that occur in a date string.
Ord(c) ==
    CASE c = "-" -> 45
      [] c = "/" -> 47
      [] c = "0" -> 48
      [] c = "1" -> 49
      [] c = "2" -> 50
      [] c = "3" -> 51
      [] c = "4" -> 52
      [] c = "5" -> 53
      [] c = "6" -> 54
      [] c = "7" -> 55
      [] c = "8" -> 56
      [] c = "9" -> 57

\* str < str: lexicographic by code point, a proper prefix is smaller.
RECURSIVE StrLess(_, _)
StrLess(a, b) ==
    IF a = <<>> THEN b # <<>>
    ELSE IF b = <<>> THEN FALSE
    ELSE IF Head(a) = Head(b) THEN StrLess(Tail(a), Tail(b))
    ELSE Ord(Head(a)) < Ord(Head(b))

\* str.split(sep) for a one-character separator.
RECURSIVE split(_, _)
split(s, sep) ==
    IF s = <<>> THEN << <<>> >>
    ELSE LET rest == split(Tail(s), sep) IN
         IF Head(s) = sep THEN << <<>> >> \o rest
         ELSE << <<Head(s)>> \o Head(rest) >> \o Tail(rest)

\* sep.join(parts)
RECURSIVE join(_, _)
join(sep, parts) ==
    IF parts = <<>> THEN <<>>
    ELSE IF Len(parts) = 1 THEN parts[1]
    ELSE parts[1] \o <<sep>> \o join(sep, Tail(parts))

\* str.rstrip(c) for a one-character set: drops every trailing c.
RECURSIVE rstrip(_, _)
rstrip(s, c) ==
    IF s # <<>> /\ s[Len(s)] = c THEN rstrip(SubSeq(s, 1, Len(s) - 1), c) ELSE s

\* tuple < tuple for the tuples update_graph sorts: (str, int, int, int, int),
\* decided by the first position where the tuples differ.
RECURSIVE TupleLessFrom(_, _, _)
TupleLessFrom(a, b, k) ==
    IF k > Len(a) THEN FALSE
    ELSE IF a[k] = b[k] THEN TupleLessFrom(a, b, k + 1)
    ELSE IF k = 1 THEN StrLess(a[1], b[1])
    ELSE a[k] < b[k]

TupleLess(a, b) == TupleLessFrom(a, b, 1)

\* sorted(): a stable sort by TupleLess (insertion from the right end).
RECURSIVE Insert(_, _)
Insert(t, s) ==
    IF s = <<>> THEN <<t>>
    ELSE IF ~TupleLess(Head(s), t) THEN <<t>> \o s
    ELSE <<Head(s)>> \o Insert(t, Tail(s))

RECURSIVE sorted(_)
sorted(s) ==
    IF s = <<>> THEN <<>> ELSE Insert(Head(s), sorted(Tail(s)))

\* zip(*rows)[k]: the k-th column of a list of tuples.
Column(rows, k) == [i \in 1..Len(rows) |-> rows[i][k]]

\* The decimal digits of a non-negative integer.
DigitChar(d) == <<"0", "1", "2", "3", "4", "5", "6", "7", "8", "9">>[d + 1]

RECURSIVE Digits(_)
Digits(n) ==
    IF n < 10 THEN <<DigitChar(n)>> ELSE Digits(n \div 10) \o <<DigitChar(n % 10)>>

RECURSIVE ZeroPad(_, _)
ZeroPad(s, w) ==
    IF Len(s) >= w THEN s ELSE ZeroPad(<<"0">> \o s, w)

\* The width of the format specification 05d.
CounterWidth == 5

\* A formatter that keeps the last CounterWidth digits only.
Format05d_truncating(n) ==
    ZeroPad(Digits(n % 100000), CounterWidth)

\* f"{n:05d}" for n >= 0: zero-padded to a minimum width of 5.
Format05d(n) ==
    ZeroPad(Digits(n), CounterWidth)

\* A status check that lets server errors through.
raise_for_status_5xx_ignored(r) ==
    400 <= r.status_code /\ r.status_code < 500

\* requests.Response.raise_for_status: raises HTTPError for 4xx and 5xx.
raise_for_status(r) ==
    400 <= r.status_code /\ r.status_code < 600

----------------------------------------------------------------------------
(* The callbacks, from the decoded document res = r.json() to the value    *)
(* returned or the exception raised                                        *)

\* f"2020-{'-'.join(i.split('/'))}"
NormalizeDate(d) ==
    <<"2", "0", "2", "0", "-">> \o join("-", split(d, "/"))

\* sorted(zip(dates, confirmeds, suspecteds, deads, cureds))
SortRecords(zipped) ==
    sorted(zipped)

\* A sort key of dates alone that then re-pairs the sorted dates with the
\* counts in payload order.
TrendSeries_dates_only(zipped) ==
    LET s == SortRecords(zipped) IN
    [ x          |-> Column(s, 1),
      confirmeds |-> Column(zipped, 2),
      suspecteds |-> Column(zipped, 3),
      deads      |-> Column(zipped, 4),
      cureds     |-> Column(zipped, 5) ]

\* dates, confirmeds, suspecteds, deads, cureds = zip(*sorted(zip(...)))
TrendSeries(zipped) ==
    LET s == SortRecords(zipped) IN
    [ x          |-> Column(s, 1),
      confirmeds |-> Column(s, 2),
      suspecteds |-> Column(s, 3),
      deads      |-> Column(s, 4),
      cureds     |-> Column(s, 5) ]

\* update_graph after r.json().  Unpacking zip(*[]) into five names raises
\* ValueError: an empty payload has no columns.
update_graph(res) ==
    LET data == res.data.wuwei_ww_cn_day_counts
        rows == [k \in 1..Len(data) |->
                    <<data[k].date, data[k].confirm, data[k].suspect,
                      data[k].dead, data[k].heal>>]
    IN  IF rows = <<>> THEN Raise("ValueError")
        ELSE LET zipped == [k \in 1..Len(rows) |->
                               <<NormalizeDate(rows[k][1]), rows[k][2], rows[k][3],
                                 rows[k][4], rows[k][5]>>]
             IN  Return(TrendSeries(zipped))

\* update_counts after r.json().  Indexing an empty wuwei_ww_global_vars
\* raises IndexError.  The first output, the refresh time, is the wall clock
\* and carries no data of the payload.
update_counts(res) ==
    LET gv == res.data.wuwei_ww_global_vars IN
    IF gv = <<>> THEN Raise("IndexError")
    ELSE Return([ confirmed |-> Format05d(gv[1].confirmCount),
                  suspected |-> Format05d(gv[1].suspectCount),
                  dead      |-> Format05d(gv[1].deadCount),
                  cured     |-> Format05d(gv[1].cure) ])

\* The choropleth of a table of rows (name, confirmed, suspected, cured, dead):
\* z is the natural logarithm of log_of, the confirmed counts plus one.
Choropleth(rows) ==
    [ locations  |-> Column(rows, 1),
      log_of     |-> [k \in 1..Len(rows) |-> rows[k][2] + 1],
      customdata |-> rows ]

\* update_province_map after r.json().
update_province_map(res) ==
    LET data == res.data.getAreaStat
        rows == [k \in 1..Len(data) |->
                    <<rstrip(rstrip(data[k].provinceName, "sheng"), "shi"),
                      data[k].confirmedCount, data[k].suspectedCount,
                      data[k].curedCount, data[k].deadCount>>]
    IN  IF rows = <<>> THEN Raise("ValueError") ELSE Return(Choropleth(rows))

\* A loop body without the continue: a municipality's cities are appended too.
CityRows_no_continue(province) ==
    LET own == << <<province.provinceShortName, province.confirmedCount,
                    province.suspectedCount, province.curedCount,
                    province.deadCount>> >>
        cities == IF "cities" \in DOMAIN province THEN province.cities ELSE <<>>
        nested == [k \in 1..Len(cities) |->
                      <<cities[k].cityName, cities[k].confirmedCount,
                        cities[k].suspectedCount, cities[k].curedCount,
                        cities[k].deadCount>>]
    IN  IF province.provinceShortName \in municipalities THEN own \o nested ELSE nested

\* A loop over province['cities'] that stops one entry short.
CityRows_drops_last(province) ==
    IF province.provinceShortName \in municipalities
    THEN << <<province.provinceShortName, province.confirmedCount,
              province.suspectedCount, province.curedCount, province.deadCount>> >>
    ELSE [k \in 1..(Len(province.cities) - 1) |->
             <<province.cities[k].cityName, province.cities[k].confirmedCount,
               province.cities[k].suspectedCount, province.cities[k].curedCount,
               province.cities[k].deadCount>>]

\* One iteration of the loop of update_city_map: the rows one province appends.
CityRows(province) ==
    IF province.provinceShortName \in municipalities
    THEN << <<province.provinceShortName, province.confirmedCount,
              province.suspectedCount, province.curedCount, province.deadCount>> >>
    ELSE [k \in 1..Len(province.cities) |->
             <<province.cities[k].cityName, province.cities[k].confirmedCount,
               province.cities[k].suspectedCount, province.cities[k].curedCount,
               province.cities[k].deadCount>>]

\* province['cities'] raises KeyError on an entry without the key.
LacksCities(province) ==
    /\ province.provinceShortName \notin municipalities
    /\ "cities" \notin DOMAIN province

RECURSIVE CityTableFrom(_, _)
CityTableFrom(data, k) ==
    IF k > Len(data) THEN <<>> ELSE CityRows(data[k]) \o CityTableFrom(data, k + 1)

\* The loop of update_city_map: the five lists, as rows.
CityTable(res) ==
    LET data == res.data.getAreaStat IN
    IF \E k \in 1..Len(data) : LacksCities(data[k]) THEN Raise("KeyError")
    ELSE Return(CityTableFrom(data, 1))

\* The DataFrame written by df.to_csv('cities_data.csv', index=False).
CsvOf(rows) ==
    [ header |-> <<"cities", "confirmeds", "suspecteds", "cureds", "deads">>,
      rows   |-> rows ]

\* What df.to_csv leaves in the file: the table; the old contents when the
\* file cannot be opened; an empty file when writing fails after the open.
CsvAfter(old, rows, fault) ==
    CASE fault = "none"  -> CsvOf(rows)
      [] fault = "open"  -> old
      [] fault = "write" -> [header |-> <<>>, rows |-> <<>>]

CsvFaults == {"none", "open", "write"}

\* update_city_map after r.json(): an OSError of to_csv is not caught.
update_city_map(res, fault) ==
    LET t == CityTable(res) IN
    IF t.kind = "raise" THEN t
    ELSE IF fault # "none" THEN Raise("OSError")
    ELSE Return(Choropleth(t.value))

----------------------------------------------------------------------------
(* What the two endpoints can answer *)

\* Every sequence over S of length 0..n.
SeqsUpTo(S, n) == UNION { [1..k -> S] : k \in 0..n }

\* Records of wuwei_ww_cn_day_counts; the last repeats a date with other counts.
DayRecords ==
    { [date |-> <<"1", "/", "2", "3">>, confirm |-> 100, suspect |-> 50, dead |-> 2, heal |-> 5],
      [date |-> <<"2", "/", "2">>, confirm |-> 300, suspect |-> 80, dead |-> 7, heal |-> 9],
      [date |-> <<"2", "/", "1", "0">>, confirm |-> 400, suspect |-> 60, dead |-> 8, heal |-> 30],
      [date |-> <<"2", "/", "2">>, confirm |-> 200, suspect |-> 90, dead |-> 3, heal |-> 6] }

\* Records of wuwei_ww_global_vars.
GlobalVars ==
    { [confirmCount |-> 0, suspectCount |-> 0, deadCount |-> 0, cure |-> 0],
      [confirmCount |-> 830, suspectCount |-> 1072, deadCount |-> 25, cure |-> 34],
      [confirmCount |-> 99999, suspectCount |-> 100000, deadCount |-> 9, cure |-> 10],
      [confirmCount |-> 123456, suspectCount |-> 99999, deadCount |-> 100000, cure |-> 7] }

City(name, confirmed, suspected, cured, dead) ==
    [ cityName |-> name, confirmedCount |-> confirmed, suspectedCount |-> suspected,
      curedCount |-> cured, deadCount |-> dead ]

\* Entries of getAreaStat.
Hubei ==
    [ provinceName |-> <<"Hu", "bei", "sheng">>, provinceShortName |-> <<"Hu", "bei">>,
      confirmedCount |-> 1000, suspectedCount |-> 11, curedCount |-> 30, deadCount |-> 40,
      cities |-> << City(<<"Wu", "han">>, 600, 5, 20, 30),
                    City(<<"Huang", "gang">>, 400, 6, 10, 10) >> ]

Beijing ==
    [ provinceName |-> <<"Bei", "jing", "shi">>, provinceShortName |-> <<"Bei", "jing">>,
      confirmedCount |-> 80, suspectedCount |-> 4, curedCount |-> 2, deadCount |-> 1,
      cities |-> << City(<<"Chao", "yang", "qu">>, 17, 0, 1, 0) >> ]

Taiwan ==
    [ provinceName |-> <<"Tai", "wan">>, provinceShortName |-> <<"Tai", "wan">>,
      confirmedCount |-> 3, suspectedCount |-> 0, curedCount |-> 0, deadCount |-> 0 ]

Qinghai ==
    [ provinceName |-> <<"Qing", "hai", "sheng">>, provinceShortName |-> <<"Qing", "hai">>,
      confirmedCount |-> 0, suspectedCount |-> 2, curedCount |-> 0, deadCount |-> 0,
      cities |-> <<>> ]

Xizang ==
    [ provinceName |-> <<"Xi", "zang">>, provinceShortName |-> <<"Xi", "zang">>,
      confirmedCount |-> 0, suspectedCount |-> 1, curedCount |-> 0, deadCount |-> 0 ]

Provinces == {Hubei, Beijing, Taiwan, Qinghai, Xizang}

QQ(days, gv) ==
    { [data |-> [wuwei_ww_cn_day_counts |-> d, wuwei_ww_global_vars |-> g]] :
        d \in days, g \in gv }

Dxy(areas) ==
    { [data |-> [getAreaStat |-> a]] : a \in areas }

Ok(docs) == { [status_code |-> 200, json |-> d] : d \in docs }

Failed == { [status_code |-> 500, json |-> NoJson] }

NotFound == { [status_code |-> 404, json |-> NoJson] }

NotJson == { [status_code |-> 200, json |-> NoJson] }

OneDay == CHOOSE d \in DayRecords : d.confirm = 100

OneGlobalVars == CHOOSE g \in GlobalVars : g.confirmCount = 830

----------------------------------------------------------------------------
(* The dashboard *)

Init ==
    /\ n_intervals = 0
    /\ response = [cb \in Callbacks |-> NoResponse]
    /\ status = [cb \in Callbacks |-> "pending"]
    /\ figure = [cb \in Callbacks |-> NoFigure]
    /\ csv_file = Absent
    /\ csv_written = FALSE
    /\ gets = [ep \in Endpoints |-> 0]

\* The Interval component fires: n_intervals changes and every callback that
\* has it as Input is triggered again.
Tick ==
    /\ \A cb \in Callbacks : response[cb] # NoResponse
    /\ n_intervals < MaxTicks
    /\ n_intervals' = n_intervals + 1
    /\ response' = [cb \in Callbacks |-> NoResponse]
    /\ status' = [cb \in Callbacks |-> "pending"]
    /\ csv_written' = FALSE
    /\ gets' = [ep \in Endpoints |-> 0]
    /\ UNCHANGED <<figure, csv_file>>

\* One run of a callback: a single requests.get, then either the returned
\* value becomes the Output or the exception leaves the Output as it is.
Finish(cb, r, out) ==
    /\ response' = [response EXCEPT ![cb] = r]
    /\ gets' = [gets EXCEPT ![api(cb)] = @ + 1]
    /\ status' = [status EXCEPT ![cb] = IF out.kind = "return" THEN "returned" ELSE out.error]
    /\ figure' = [figure EXCEPT ![cb] = IF out.kind = "return" THEN out.value ELSE @]
    /\ UNCHANGED n_intervals

\* r.raise_for_status(); res = r.json()
Decodes(r) == ~raise_for_status(r) /\ r.json # NoJson

DecodeError(r) ==
    IF raise_for_status(r) THEN Raise("HTTPError") ELSE Raise("JSONDecodeError")

UpdateGraph(qq) ==
    /\ response["update_graph"] = NoResponse
    /\ \E r \in qq :
         Finish("update_graph", r,
                IF Decodes(r) THEN update_graph(r.json) ELSE DecodeError(r))
    /\ UNCHANGED <<csv_file, csv_written>>

UpdateCounts(qq) ==
    /\ response["update_counts"] = NoResponse
    /\ \E r \in qq :
         Finish("update_counts", r,
                IF Decodes(r) THEN update_counts(r.json) ELSE DecodeError(r))
    /\ UNCHANGED <<csv_file, csv_written>>

UpdateProvinceMap(dxy) ==
    /\ response["update_province_map"] = NoResponse
    /\ \E r \in dxy :
         Finish("update_province_map", r,
                IF Decodes(r) THEN update_province_map(r.json) ELSE DecodeError(r))
    /\ UNCHANGED <<csv_file, csv_written>>

\* df.to_csv is reached when the fetch decoded and the loop raised nothing.
UpdateCityMap(dxy, faults) ==
    /\ response["update_city_map"] = NoResponse
    /\ \E r \in dxy, fault \in faults :
         LET reaches_to_csv ==
                 IF Decodes(r) THEN CityTable(r.json).kind = "return" ELSE FALSE
         IN  /\ Finish("update_city_map", r,
                       IF Decodes(r) THEN update_city_map(r.json, fault)
                       ELSE DecodeError(r))
             /\ csv_file' = IF reaches_to_csv
                            THEN CsvAfter(csv_file, CityTable(r.json).value, fault)
                            ELSE csv_file
             /\ csv_written' = (csv_written \/ (reaches_to_csv /\ fault # "open"))

\* The dashboard whose four callbacks receive answers of the given sets.
NextOn(graph_qq, counts_qq, province_dxy, city_dxy, faults) ==
    \/ Tick
    \/ UpdateGraph(graph_qq)
    \/ UpdateCounts(counts_qq)
    \/ UpdateProvinceMap(province_dxy)
    \/ UpdateCityMap(city_dxy, faults)

\* A sample of every kind of answer, for all four callbacks.
QQSample ==
    Ok(QQ({<<>>, <<OneDay>>}, {<<>>, <<OneGlobalVars>>})) \cup Failed \cup NotFound \cup NotJson

DxySample ==
    Ok(Dxy({<<>>, <<Hubei>>, <<Beijing>>, <<Xizang>>})) \cup Failed \cup NotFound \cup NotJson

Next == NextOn(QQSample, QQSample, DxySample, DxySample, CsvFaults)

Spec == Init /\ [][Next]_vars

\* One well-formed answer of each endpoint.
QQOne == Ok(QQ({<<OneDay>>}, {<<OneGlobalVars>>}))

DxyOne == Ok(Dxy({<<Hubei>>}))

\* update_graph against every daily-count payload of up to MaxDays records.
NextGraph ==
    NextOn(Ok(QQ(SeqsUpTo(DayRecords, MaxDays), {<<OneGlobalVars>>})) \cup Failed,
           QQOne, DxyOne, DxyOne, {"none"})

SpecGraph == Init /\ [][NextGraph]_vars

\* update_counts against every global-variables record.
NextCounts ==
    NextOn(QQOne,
           Ok(QQ({<<OneDay>>}, {<<>>} \cup {<<g>> : g \in GlobalVars})) \cup Failed,
           DxyOne, DxyOne, {"none"})

SpecCounts == Init /\ [][NextCounts]_vars

\* update_city_map against every area-stat payload of up to MaxProvinces entries.
NextCity ==
    NextOn(QQOne, QQOne, DxyOne,
           Ok(Dxy(SeqsUpTo(Provinces, MaxProvinces))) \cup Failed, CsvFaults)

SpecCity == Init /\ [][NextCity]_vars

----------------------------------------------------------------------------
(* Vocabulary of the properties *)

Ran(cb) == response[cb] # NoResponse

Returned(cb) == status[cb] = "returned"

AllRan == \A cb \in Callbacks : Ran(cb)

FetchFailed(cb) == Ran(cb) /\ response[cb].status_code # 200

IsDigit(c) == c \in {"0", "1", "2", "3", "4", "5", "6", "7", "8", "9"}

DigitValue(c) == CHOOSE d \in 0..9 : DigitChar(d) = c

\* The number a string of decimal digits denotes.
RECURSIVE ToInt(_)
ToInt(s) ==
    IF s = <<>> THEN 0
    ELSE 10 * ToInt(SubSeq(s, 1, Len(s) - 1)) + DigitValue(s[Len(s)])

\* The bag of the entries of a sequence.
BagOf(s) ==
    [t \in {s[k] : k \in 1..Len(s)} |-> Cardinality({k \in 1..Len(s) : s[k] = t})]

----------------------------------------------------------------------------
(* update_graph: C1, C5, C10 (under SpecGraph) *)

DayCounts == response["update_graph"].json.data.wuwei_ww_cn_day_counts

Trend == figure["update_graph"]

\* Month and day of a date "2020-M-D".
MonthOf(date) == ToInt(split(date, "-")[2])

DayOf(date) == ToInt(split(date, "-")[3])

CalendarLeq(a, b) ==
    \/ MonthOf(a) < MonthOf(b)
    \/ MonthOf(a) = MonthOf(b) /\ DayOf(a) <= DayOf(b)

\* C1: whenever update_graph returns on a non-empty payload of "M/D" dates,
\* the dates of the trend are non-decreasing in calendar order (month, then
\* day) and each of the four value series is as long as the date series.
C1_DatesInCalendarOrder ==
    Returned("update_graph") =>
        /\ \A k \in 1..(Len(Trend.x) - 1) : CalendarLeq(Trend.x[k], Trend.x[k + 1])
        /\ Len(Trend.confirmeds) = Len(Trend.x)
        /\ Len(Trend.suspecteds) = Len(Trend.x)
        /\ Len(Trend.deads) = Len(Trend.x)
        /\ Len(Trend.cureds) = Len(Trend.x)

\* C5: when the daily-count payload is the empty sequence, update_graph
\* raises nothing and returns five empty series.
C5_EmptyPayloadGivesEmptySeries ==
    (Ran("update_graph") /\ Decodes(response["update_graph"]) /\ DayCounts = <<>>) =>
        /\ Returned("update_graph")
        /\ Trend.x = <<>>
        /\ Trend.confirmeds = <<>>
        /\ Trend.suspecteds = <<>>
        /\ Trend.deads = <<>>
        /\ Trend.cureds = <<>>

\* "M/D" rewritten to "2020-M-D", character by character.
IsoOf(date) ==
    <<"2", "0", "2", "0", "-">> \o
    [k \in 1..Len(date) |-> IF date[k] = "/" THEN "-" ELSE date[k]]

InputTuples ==
    [k \in 1..Len(DayCounts) |->
        <<IsoOf(DayCounts[k].date), DayCounts[k].confirm, DayCounts[k].suspect,
          DayCounts[k].dead, DayCounts[k].heal>>]

OutputTuples ==
    [k \in 1..Len(Trend.x) |->
        <<Trend.x[k], Trend.confirmeds[k], Trend.suspecteds[k],
          Trend.deads[k], Trend.cureds[k]>>]

\* C10: the five series of the trend are index-aligned with the input: the
\* tuples (dates[k], confirmeds[k], suspecteds[k], deads[k], cureds[k]) are,
\* as a multiset, exactly the normalized input records, also when two records
\* share a date: no record is dropped, duplicated or paired with another
\* record's counts.
C10_SeriesAlignedWithInput ==
    Returned("update_graph") =>
        /\ Len(Trend.x) = Len(DayCounts)
        /\ Len(Trend.confirmeds) = Len(DayCounts)
        /\ Len(Trend.suspecteds) = Len(DayCounts)
        /\ Len(Trend.deads) = Len(DayCounts)
        /\ Len(Trend.cureds) = Len(DayCounts)
        /\ BagOf(OutputTuples) = BagOf(InputTuples)

\* Two records of one date and different counts, which sorting has reordered.
C10_Witness ==
    /\ Returned("update_graph")
    /\ Len(DayCounts) = 2
    /\ DayCounts[1].date = DayCounts[2].date
    /\ DayCounts[1].confirm > DayCounts[2].confirm
    /\ OutputTuples = <<InputTuples[2], InputTuples[1]>>

----------------------------------------------------------------------------
(* update_counts: C9 (under SpecCounts) *)

Totals == response["update_counts"].json.data.wuwei_ww_global_vars[1]

Counters == figure["update_counts"]

FiveDigits(s, total) ==
    /\ Len(s) = 5
    /\ \A k \in 1..Len(s) : IsDigit(s[k])
    /\ ToInt(s) = total

\* C9 as stated: every counter string has exactly five characters, all
\* decimal digits, and denotes the total.
C9_ExactlyFiveDigits ==
    Returned("update_counts") =>
        /\ FiveDigits(Counters.confirmed, Totals.confirmCount)
        /\ FiveDigits(Counters.suspected, Totals.suspectCount)
        /\ FiveDigits(Counters.dead, Totals.deadCount)
        /\ FiveDigits(Counters.cured, Totals.cure)

AtLeastFiveDigits(s, total) ==
    /\ \A k \in 1..Len(s) : IsDigit(s[k])
    /\ ToInt(s) = total
    /\ total <= 99999 => Len(s) = 5
    /\ total > 99999 => Len(s) > 5 /\ s[1] # "0"

\* C9, amended: every counter string consists of decimal digits and denotes
\* the total; it has exactly five characters, left-padded with zeros, when the
\* total is at most 99999, and is the unpadded decimal numeral of more than
\* five characters when the total is larger.
C9_AtLeastFiveDigits ==
    Returned("update_counts") =>
        /\ AtLeastFiveDigits(Counters.confirmed, Totals.confirmCount)
        /\ AtLeastFiveDigits(Counters.suspected, Totals.suspectCount)
        /\ AtLeastFiveDigits(Counters.dead, Totals.deadCount)
        /\ AtLeastFiveDigits(Counters.cured, Totals.cure)

\* A padded counter and a counter of six digits in one record.
C9_Witness ==
    /\ Returned("update_counts")
    /\ Totals.confirmCount = 123456
    /\ Counters.confirmed = <<"1", "2", "3", "4", "5", "6">>
    /\ Counters.cured = <<"0", "0", "0", "0", "7">>

----------------------------------------------------------------------------
(* update_city_map: C2, C3 (under SpecCity) *)

AreaStat == response["update_city_map"].json.data.getAreaStat

\* The city table: the rows of the DataFrame, which the map carries too.
CityRowsShown == figure["update_city_map"].customdata

IsMunicipality(p) ==
    p.provinceShortName \in
        { <<"Bei", "jing">>, <<"Shang", "hai">>, <<"Tian", "jin">>,
          <<"Chong", "qing">>, <<"Tai", "wan">> }

\* The rows the claims give to one province entry.
Share(p) == IF IsMunicipality(p) THEN 1 ELSE Len(p.cities)

\* The rows the claims give to the entries before the i-th.
RECURSIVE RowsBefore(_, _)
RowsBefore(data, i) ==
    IF i <= 1 THEN 0 ELSE RowsBefore(data, i - 1) + Share(data[i - 1])

\* C2: every entry of the municipality set contributes exactly one row to the
\* city table, with the province short name and the province-level counts
\* unchanged, and none of the entries of its cities list contributes a row.
C2_MunicipalityIsOneRow ==
    Returned("update_city_map") =>
        /\ Len(CityRowsShown) = RowsBefore(AreaStat, Len(AreaStat) + 1)
        /\ csv_file.rows = CityRowsShown
        /\ \A i \in 1..Len(AreaStat) :
             IsMunicipality(AreaStat[i]) =>
                CityRowsShown[RowsBefore(AreaStat, i) + 1] =
                    << AreaStat[i].provinceShortName, AreaStat[i].confirmedCount,
                       AreaStat[i].suspectedCount, AreaStat[i].curedCount,
                       AreaStat[i].deadCount >>

\* A municipality that has a cities list, followed by another entry.
C2_Witness ==
    /\ Returned("update_city_map")
    /\ Len(AreaStat) = 2
    /\ IsMunicipality(AreaStat[1])
    /\ "cities" \in DOMAIN AreaStat[1]
    /\ AreaStat[1].cities # <<>>
    /\ ~IsMunicipality(AreaStat[2])
    /\ Len(CityRowsShown) = 3

\* The number of municipality entries plus the cities of the other entries.
RECURSIVE CitiesOfOthers(_)
CitiesOfOthers(data) ==
    IF data = <<>> THEN 0
    ELSE (IF IsMunicipality(Head(data)) THEN 0 ELSE Len(Head(data).cities))
         + CitiesOfOthers(Tail(data))

\* C3: every entry outside the municipality set contributes one row per entry
\* of its cities list, in list order, with that city's own name and counts;
\* the table has as many rows as there are municipality entries plus the
\* cities of the other entries.
C3_OneRowPerCity ==
    Returned("update_city_map") =>
        /\ Len(CityRowsShown) =
              Cardinality({i \in 1..Len(AreaStat) : IsMunicipality(AreaStat[i])})
              + CitiesOfOthers(AreaStat)
        /\ \A i \in 1..Len(AreaStat) :
             ~IsMunicipality(AreaStat[i]) =>
                \A k \in 1..Len(AreaStat[i].cities) :
                    CityRowsShown[RowsBefore(AreaStat, i) + k] =
                        << AreaStat[i].cities[k].cityName,
                           AreaStat[i].cities[k].confirmedCount,
                           AreaStat[i].cities[k].suspectedCount,
                           AreaStat[i].cities[k].curedCount,
                           AreaStat[i].cities[k].deadCount >>

\* A province of two cities behind a municipality.
C3_Witness ==
    /\ Returned("update_city_map")
    /\ Len(AreaStat) = 2
    /\ IsMunicipality(AreaStat[1])
    /\ ~IsMunicipality(AreaStat[2])
    /\ Len(AreaStat[2].cities) = 2
    /\ CityRowsShown[3][1] = AreaStat[2].cities[2].cityName

----------------------------------------------------------------------------
(* The tick: C4, C6, C7, C8 (under Spec) *)

\* A callback runs in this step and its fetch returns a non-success status.
FailsFetch(cb) ==
    /\ response[cb] = NoResponse
    /\ response'[cb] # NoResponse
    /\ response'[cb].status_code # 200

\* C4: a callback whose fetch returns a non-success status ends in HTTPError
\* before any output: its Output stays as it was and cities_data.csv is not
\* rewritten, after any earlier successful and failed ticks.
C4_FailedFetchKeepsOutput ==
    /\ [][\A cb \in Callbacks :
             FailsFetch(cb) =>
                /\ status'[cb] = "HTTPError"
                /\ figure' = figure
                /\ csv_file' = csv_file
                /\ csv_written' = csv_written]_vars
    /\ [](FetchFailed("update_city_map") => ~csv_written)

\* Failed fetches in a tick after one that published the counters and the
\* city map and wrote the file.
C4_Witness ==
    /\ n_intervals >= 1
    /\ FetchFailed("update_city_map")
    /\ FetchFailed("update_counts")
    /\ status["update_city_map"] = "HTTPError"
    /\ figure["update_city_map"] # NoFigure
    /\ figure["update_counts"] # NoFigure
    /\ csv_file = CsvOf(figure["update_city_map"].customdata)
    /\ ~csv_written

GoodQQ(r) ==
    /\ Decodes(r)
    /\ r.json.data.wuwei_ww_cn_day_counts # <<>>
    /\ r.json.data.wuwei_ww_global_vars # <<>>

\* An answer of dxy on which both maps have something to show.
GoodDxy(r) ==
    /\ Decodes(r)
    /\ r.json.data.getAreaStat # <<>>
    /\ \A k \in 1..Len(r.json.data.getAreaStat) : ~LacksCities(r.json.data.getAreaStat[k])

\* C7: when qq fails and dxy succeeds, both maps and the file of the tick are
\* produced; when dxy fails and qq succeeds, the trend and the counters are;
\* and a tick whose fetches all succeed produces every output, whatever
\* happened in the ticks before.
C7_OtherEndpointStillProduced ==
    AllRan =>
        /\ ( /\ FetchFailed("update_graph") /\ FetchFailed("update_counts")
             /\ GoodDxy(response["update_province_map"])
             /\ GoodDxy(response["update_city_map"]) )
           => ( /\ Returned("update_province_map")
                /\ Returned("update_city_map")
                /\ csv_written
                /\ csv_file = CsvOf(CityRowsShown) )
        /\ ( /\ FetchFailed("update_province_map") /\ FetchFailed("update_city_map")
             /\ GoodQQ(response["update_graph"])
             /\ GoodQQ(response["update_counts"]) )
           => ( Returned("update_graph") /\ Returned("update_counts") )
        /\ ( /\ n_intervals >= 1
             /\ GoodQQ(response["update_graph"]) /\ GoodQQ(response["update_counts"])
             /\ GoodDxy(response["update_province_map"])
             /\ GoodDxy(response["update_city_map"]) )
           => \A cb \in Callbacks : Returned(cb)

\* C8: when the fetch and the aggregation of update_city_map succeeded and
\* the file does not hold the table, the write having failed, update_city_map
\* still returns the city map of the tick.
C8_CsvFailureStillReturnsMap ==
    ( /\ Ran("update_city_map")
      /\ Decodes(response["update_city_map"])
      /\ CityTable(response["update_city_map"].json).kind = "return"
      /\ csv_file # CsvOf(CityTable(response["update_city_map"].json).value) )
    => ( /\ Returned("update_city_map")
         /\ CityRowsShown = CityTable(response["update_city_map"].json).value )

====
